---------------------------- MODULE Spec2Model ----------------------------
(***************************************************************************)
(* Library management service (src/backend.py): the book catalog           *)
(* (books_map), the loan ledger (loans_db), the three JSON files behind     *)
(* them and the request handlers add_book, delete_book, issue_book,         *)
(* return_book and register_user.                                           *)
(*                                                                         *)
(* The specifications share the state:                                      *)
(*   Spec      handlers run one after the other, every file write succeeds  *)
(*   SpecFault handlers run one after the other; a file write may fail      *)
(*             (the save_* helpers swallow the exception) and the process   *)
(*             may stop between the two saves of issue_book / return_book   *)
(*   SpecConc  two issue_book requests run in the thread pool, interleaved  *)
(*             statement by statement                                       *)
(***************************************************************************)
EXTENDS Integers, Sequences, FiniteSets, TLC

\* ------------------------------------------------------------------ bounds
\* The ledger holds at most MaxLoans records (issue_book is not offered a
\* request that would append beyond it).
MaxLoans == 2
\* Days are 0..MaxDay.
MaxDay == 1
\* SpecFault injects at most MaxFaults failed writes and stops in a behaviour.
MaxFaults == 1
\* SpecFine draws due dates and the current day from 0..MaxFineDay.
MaxFineDay == 4

\* ------------------------------------------------------- program constants
\* timedelta(days=30) of LoanRecord.due_date
LOAN_DAYS == 30

\* fine_per_day of the dashboard's calc_fine
fine_per_day == 5

\* isbn values and customer ids the requests draw from
ISBNS == {"A", "B"}
CUSTOMERS == {1001, 1002}
Threads == {1, 2}

VARIABLES
    books_map,   \* dict isbn -> Book               (backend.py:15)
    loans_db,    \* list of LoanRecord              (backend.py:25)
    book_file,   \* book_database.json              (backend.py:14)
    loan_file,   \* loan_records.json               (backend.py:24)
    user_file,   \* user_database.json              (backend.py:202)
    today,       \* date.today()
    import_day,  \* the day the module was loaded: LoanRecord.issue_date's default
    resp,        \* the last step: the handler called, its isbn and customer id,
                 \* and the status it answered (0: none)
    open_issue,  \* history: isbns issued successfully with no return_book call since
    faults,      \* SpecFault: the failed writes and stops injected so far
    pc,          \* SpecConc: each request thread's position in issue_book
    treq,        \* SpecConc: each request thread's LoanRecord; SpecConcRegister:
                 \* its customer id and its local users_db
    tres,        \* SpecConc: each request thread's response status (0: none yet)
    fine_view    \* SpecFine: the 'Fine' column of the history the dashboard shows

vars == <<books_map, loans_db, book_file, loan_file, user_file, today,
          import_day, resp, open_issue, faults, pc, treq, tres, fine_view>>
mem == <<books_map, loans_db>>
files == <<book_file, loan_file, user_file>>
threads == <<pc, treq, tres>>

\* ------------------------------------------------------------- data model
\* class Book: title, author, pages and genre are carried but never read by a
\* handler; the record keeps the key and the flag.
Book(isbn, available) == [isbn |-> isbn, available |-> available]

\* class LoanRecord, built from a request payload.  An absent field is <<>>,
\* a supplied one <<value>>.  issue_date's default is date.today() evaluated
\* when the class was defined (module load); due_date's default_factory runs
\* at construction; returned defaults to False.
LoanRecord(p) ==
    [isbn         |-> p.isbn,
     coustomer_id |-> p.coustomer_id,
     issue_date   |-> IF p.issue_date = <<>> THEN import_day ELSE p.issue_date[1],
     due_date     |-> IF p.due_date = <<>> THEN today + LOAN_DAYS ELSE p.due_date[1],
     returned     |-> IF p.returned = <<>> THEN FALSE ELSE p.returned[1]]

\* class ReturnRequest
ReturnRequest(isbn, cid) == [isbn |-> isbn, coustomer_id |-> cid]

EmptyMap == [i \in {} |-> Book(i, TRUE)]
NoFile == [exists |-> FALSE, data |-> <<>>]
File(d) == [exists |-> TRUE, data |-> d]

Response(op, isbn, cid, status) ==
    [op |-> op, isbn |-> isbn, cid |-> cid, status |-> status]

\* --------------------------------------------------------------- file I/O
\* date <-> ISO string of model_dump(mode='json') / pydantic's parsing
DateToJson(d) == <<"iso", d>>
DateFromJson(s) == s[2]

LoanToJson(l) ==
    [isbn |-> l.isbn, coustomer_id |-> l.coustomer_id,
     issue_date |-> DateToJson(l.issue_date),
     due_date |-> DateToJson(l.due_date), returned |-> l.returned]
LoanFromJson(r) ==
    [isbn |-> r.isbn, coustomer_id |-> r.coustomer_id,
     issue_date |-> DateFromJson(r.issue_date),
     due_date |-> DateFromJson(r.due_date), returned |-> r.returned]

\* save_data_to_json: the array of book.model_dump(); a failed write is
\* printed and swallowed.  The failure modelled is open() raising, which
\* leaves the file as it was (a dump that fails midway would leave a
\* truncated file instead).
save_data_to_json(map, old, ok) ==
    IF ok THEN File({map[i] : i \in DOMAIN map}) ELSE old

\* load_data_from_json that ignores the stored flag: every book is available
load_data_from_json_available(f) ==
    IF f.exists
    THEN [i \in {r.isbn : r \in f.data} |-> Book(i, TRUE)]
    ELSE EmptyMap

\* load_data_from_json: {record["isbn"]: Book(**record)}; no file: {}.
load_data_from_json(f) ==
    IF f.exists
    THEN [i \in {r.isbn : r \in f.data} |->
            LET r == CHOOSE r \in f.data : r.isbn = i IN Book(r.isbn, r.available)]
    ELSE EmptyMap

\* save_loans_to_json
save_loans_to_json(db, old, ok) ==
    IF ok THEN File([k \in 1..Len(db) |-> LoanToJson(db[k])]) ELSE old

\* load_loans_from_json
load_loans_from_json(f) ==
    IF f.exists THEN [k \in 1..Len(f.data) |-> LoanFromJson(f.data[k])] ELSE <<>>

\* ---------------------------------------------------------- customer search
RECURSIVE BinarySearch(_, _, _, _)
BinarySearch(target_id, users_db, low, high) ==
    IF low > high THEN FALSE
    ELSE LET mid == (low + high) \div 2
             mid_id == users_db[mid + 1]
         IN  IF mid_id = target_id THEN TRUE
             ELSE IF mid_id < target_id
                  THEN BinarySearch(target_id, users_db, mid + 1, high)
                  ELSE BinarySearch(target_id, users_db, low, mid - 1)

\* find_user_binary with high = len(users_db) - 2: the last record is never probed
find_user_binary_short(target_id, users_db) ==
    BinarySearch(target_id, users_db, 0, Len(users_db) - 2)

\* find_user_binary(target_id, users_db); users_db holds the customers'
\* coustomer_id (name, email_id and mobile_number are never read).
find_user_binary(target_id, users_db) ==
    BinarySearch(target_id, users_db, 0, Len(users_db) - 1)

\* Insert without the sort: the new id goes to the end of the list
Insert_at_end(x, s) == Append(s, x)

\* list.sort(key=coustomer_id) by insertion
RECURSIVE SortIds(_)
Insert(x, s) ==
    LET k == Cardinality({j \in 1..Len(s) : s[j] <= x})
    IN  SubSeq(s, 1, k) \o <<x>> \o SubSeq(s, k + 1, Len(s))
SortIds(s) == IF s = <<>> THEN <<>> ELSE Insert(s[Len(s)], SortIds(SubSeq(s, 1, Len(s) - 1)))

\* ------------------------------------------------------------ ledger scans
\* active_loan scanning loans_db forwards instead of reversed(loans_db)
active_loan_oldest(db, isbn) ==
    LET hits == {k \in 1..Len(db) : db[k].isbn = isbn /\ ~db[k].returned}
    IN  IF hits = {} THEN 0 ELSE CHOOSE k \in hits : \A j \in hits : k <= j

\* active_loan without its "not loan.returned" test
active_loan_any(db, isbn) ==
    LET hits == {k \in 1..Len(db) : db[k].isbn = isbn}
    IN  IF hits = {} THEN 0 ELSE CHOOSE k \in hits : \A j \in hits : j <= k

\* active_loan_exists with the "not" of "not loan.returned" dropped
active_loan_exists_returned(db, isbn) ==
    \E k \in 1..Len(db) : db[k].isbn = isbn /\ db[k].returned

\* return_book's next(loan for loan in reversed(loans_db) if loan.isbn == isbn
\* and not loan.returned): the index of the most recent one, 0 for None.
active_loan(db, isbn) ==
    LET hits == {k \in 1..Len(db) : db[k].isbn = isbn /\ ~db[k].returned}
    IN  IF hits = {} THEN 0 ELSE CHOOSE k \in hits : \A j \in hits : j <= k

\* delete_book's any(loan.isbn == isbn and not loan.returned for loan in loans_db)
active_loan_exists(db, isbn) ==
    \E k \in 1..Len(db) : db[k].isbn = isbn /\ ~db[k].returned

\* get_all_books: list(books_map.values())
get_all_books == {books_map[i] : i \in DOMAIN books_map}

\* ---------------------------------------------------------------- handlers
\* The handlers leave faults to the specification that calls them.
\* The process stops inside a handler, after new_loan_file was written and
\* before the catalog save; the next startup runs load_data_from_json() and
\* load_loans_from_json() (backend.py:153-154).  No response is sent.
Stopped(op, isbn, cid, new_loan_file) ==
    /\ loan_file' = new_loan_file
    /\ loans_db' = load_loans_from_json(new_loan_file)
    /\ books_map' = load_data_from_json(book_file)
    /\ import_day' = today
    /\ resp' = Response(op, isbn, cid, 0)
    /\ UNCHANGED <<book_file, user_file, today, threads, fine_view>>

Fail(op, isbn, cid, status) ==
    /\ resp' = Response(op, isbn, cid, status)
    /\ UNCHANGED <<mem, files, today, import_day, threads, fine_view>>

\* add_book without its "if book.isbn in books_map" test
add_book_overwrite(book, w) ==
    /\ books_map' = [i \in DOMAIN books_map \cup {book.isbn} |->
                       IF i = book.isbn THEN book ELSE books_map[i]]
    /\ book_file' = save_data_to_json(books_map', book_file, w)
    /\ resp' = Response("add_book", book.isbn, 0, 201)
    /\ UNCHANGED <<loans_db, loan_file, user_file, today, import_day,
                   open_issue, threads, fine_view>>

\* POST /books/ ; w: the catalog write succeeds
add_book(book, w) ==
    IF book.isbn \in DOMAIN books_map
    THEN Fail("add_book", book.isbn, 0, 400) /\ UNCHANGED open_issue
    ELSE /\ books_map' = [i \in DOMAIN books_map \cup {book.isbn} |->
                            IF i = book.isbn THEN book ELSE books_map[i]]
         /\ book_file' = save_data_to_json(books_map', book_file, w)
         /\ resp' = Response("add_book", book.isbn, 0, 201)
         /\ UNCHANGED <<loans_db, loan_file, user_file, today, import_day,
                        open_issue, threads, fine_view>>

\* issue_check without its "if not book_to_update.available" test
issue_check_any_availability(loan) ==
    IF ~user_file.exists THEN 500
    ELSE IF ~find_user_binary(loan.coustomer_id, user_file.data) THEN 403
    ELSE IF loan.isbn \notin DOMAIN books_map THEN 404
    ELSE 0

\* issue_book's checks (backend.py:299-323): the status of the failure, 0 when
\* the request passes them.
issue_check(loan) ==
    IF ~user_file.exists THEN 500
    ELSE IF ~find_user_binary(loan.coustomer_id, user_file.data) THEN 403
    ELSE IF loan.isbn \notin DOMAIN books_map THEN 404
    ELSE IF ~books_map[loan.isbn].available THEN 400
    ELSE 0

\* POST /loans/ ; w1: the ledger write succeeds, w2: the catalog write
\* succeeds, stop: the process stops between the two saves
issue_book(loan, w1, w2, stop) ==
    IF issue_check(loan) # 0
    THEN Fail("issue_book", loan.isbn, loan.coustomer_id, issue_check(loan))
         /\ UNCHANGED open_issue
    ELSE LET db == Append(loans_db, loan)
             lf == save_loans_to_json(db, loan_file, w1)
         IN  IF stop
             THEN Stopped("issue_book", loan.isbn, loan.coustomer_id, lf)
                  /\ UNCHANGED open_issue
             ELSE /\ loans_db' = db
                  /\ loan_file' = lf
                  /\ books_map' = [books_map EXCEPT ![loan.isbn].available = FALSE]
                  /\ book_file' = save_data_to_json(books_map', book_file, w2)
                  /\ resp' = Response("issue_book", loan.isbn, loan.coustomer_id, 201)
                  /\ open_issue' = open_issue \cup {loan.isbn}
                  /\ UNCHANGED <<user_file, today, import_day, threads, fine_view>>

\* return_book without "active_loan.due_date = date.today()"
return_book_keeping_due_date(req, w1, w2, stop) ==
    LET isbn == req.isbn
        cid == req.coustomer_id
        k == active_loan(loans_db, isbn)
    IN  /\ open_issue' = open_issue \ {isbn}
        /\ IF isbn \notin DOMAIN books_map
           THEN Fail("return_book", isbn, cid, 404)
           ELSE IF books_map[isbn].available
           THEN Fail("return_book", isbn, cid, 400)
           ELSE IF k = 0
           THEN Fail("return_book", isbn, cid, 400)
           ELSE LET db == [loans_db EXCEPT ![k].returned = TRUE]
                    lf == save_loans_to_json(db, loan_file, w1)
                IN  IF stop
                    THEN Stopped("return_book", isbn, cid, lf)
                    ELSE /\ loans_db' = db
                         /\ loan_file' = lf
                         /\ books_map' = [books_map EXCEPT ![isbn].available = TRUE]
                         /\ book_file' = save_data_to_json(books_map', book_file, w2)
                         /\ resp' = Response("return_book", isbn, cid, 200)
                         /\ UNCHANGED <<user_file, today, import_day, threads, fine_view>>

\* POST /loans/return/
return_book(req, w1, w2, stop) ==
    LET isbn == req.isbn
        cid == req.coustomer_id
        k == active_loan(loans_db, isbn)
    IN  /\ open_issue' = open_issue \ {isbn}
        /\ IF isbn \notin DOMAIN books_map
           THEN Fail("return_book", isbn, cid, 404)
           ELSE IF books_map[isbn].available
           THEN Fail("return_book", isbn, cid, 400)
           ELSE IF k = 0
           THEN Fail("return_book", isbn, cid, 400)
           ELSE LET db == [loans_db EXCEPT ![k].returned = TRUE,
                                           ![k].due_date = today]
                    lf == save_loans_to_json(db, loan_file, w1)
                IN  IF stop
                    THEN Stopped("return_book", isbn, cid, lf)
                    ELSE /\ loans_db' = db
                         /\ loan_file' = lf
                         /\ books_map' = [books_map EXCEPT ![isbn].available = TRUE]
                         /\ book_file' = save_data_to_json(books_map', book_file, w2)
                         /\ resp' = Response("return_book", isbn, cid, 200)
                         /\ UNCHANGED <<user_file, today, import_day, threads, fine_view>>

\* delete_book that also drops the deleted book's loans from the ledger
delete_book_purging(isbn, w) ==
    /\ UNCHANGED open_issue
    /\ IF isbn \notin DOMAIN books_map
       THEN Fail("delete_book", isbn, 0, 404)
       ELSE IF ~books_map[isbn].available /\ active_loan_exists(loans_db, isbn)
       THEN Fail("delete_book", isbn, 0, 400)
       ELSE LET Others(l) == l.isbn # isbn
            IN  /\ books_map' = [i \in DOMAIN books_map \ {isbn} |-> books_map[i]]
                /\ book_file' = save_data_to_json(books_map', book_file, w)
                /\ loans_db' = SelectSeq(loans_db, Others)
                /\ loan_file' = save_loans_to_json(loans_db', loan_file, w)
                /\ resp' = Response("delete_book", isbn, 0, 200)
                /\ UNCHANGED <<user_file, today, import_day, threads, fine_view>>

\* DELETE /books/{isbn}
delete_book(isbn, w) ==
    /\ UNCHANGED open_issue
    /\ IF isbn \notin DOMAIN books_map
       THEN Fail("delete_book", isbn, 0, 404)
       ELSE IF ~books_map[isbn].available /\ active_loan_exists(loans_db, isbn)
       THEN Fail("delete_book", isbn, 0, 400)
       ELSE /\ books_map' = [i \in DOMAIN books_map \ {isbn} |-> books_map[i]]
            /\ book_file' = save_data_to_json(books_map', book_file, w)
            /\ resp' = Response("delete_book", isbn, 0, 200)
            /\ UNCHANGED <<loans_db, loan_file, user_file, today, import_day, threads, fine_view>>

\* POST /customers/ ; without the file users_db is unbound and line 212
\* raises, which the handler turns into 500; so does a failed write.
register_user(cid, w) ==
    /\ UNCHANGED open_issue
    /\ IF ~user_file.exists
       THEN Fail("register_user", "-", cid, 500)
       ELSE LET users_db == SortIds(user_file.data)
            IN  IF find_user_binary(cid, users_db)
                THEN Fail("register_user", "-", cid, 400)
                ELSE IF ~w
                THEN Fail("register_user", "-", cid, 500)
                ELSE /\ user_file' = File(SortIds(Append(users_db, cid)))
                     /\ resp' = Response("register_user", "-", cid, 201)
                     /\ UNCHANGED <<mem, book_file, loan_file, today, import_day, threads, fine_view>>

\* get_student_loans that lists the customer's unreturned loans only
get_student_loans_active(cid) ==
    IF user_file.exists /\ ~find_user_binary(cid, user_file.data)
    THEN [status |-> 404, body |-> <<>>]
    ELSE IF ~loan_file.exists
    THEN [status |-> 200, body |-> <<>>]
    ELSE LET Mine(r) == r.coustomer_id = cid /\ ~r.returned
         IN  [status |-> 200, body |-> SelectSeq(loan_file.data, Mine)]

\* GET /loans/coustomer/{coustomer_id}: the status and the JSON body.  The
\* customer is looked up only if user_database.json exists; the loans are
\* read from loan_records.json, not from loans_db.
get_student_loans(cid) ==
    IF user_file.exists /\ ~find_user_binary(cid, user_file.data)
    THEN [status |-> 404, body |-> <<>>]
    ELSE IF ~loan_file.exists
    THEN [status |-> 200, body |-> <<>>]
    ELSE LET Mine(r) == r.coustomer_id = cid
         IN  [status |-> 200, body |-> SelectSeq(loan_file.data, Mine)]

\* The request is answered; the handler assigns nothing.
get_student_loans_call(cid) ==
    /\ UNCHANGED open_issue
    /\ Fail("get_student_loans", "-", cid, get_student_loans(cid).status)

\* ------------------------------------------------------------- dashboard
Abs(x) == IF x < 0 THEN 0 - x ELSE x

\* calc_fine without its "if row['returned'] == True" test
calc_fine_ignoring_returned(row, day) ==
    LET days_diff == row.due_date - day
    IN  IF days_diff >= 0 THEN 0 ELSE Abs(days_diff) * fine_per_day

\* calc_fine(row) of the history tab, with its free variable today as day;
\* row['due_date'] is a date by then (streamlit_app.py:264).
calc_fine(row, day) ==
    IF row.returned = TRUE THEN 0
    ELSE LET days_diff == row.due_date - day
         IN  IF days_diff >= 0 THEN 0 ELSE Abs(days_diff) * fine_per_day

\* The history tab (streamlit_app.py:257-293): GET /loans/coustomer/{id};
\* on 200 with a non-empty body the due dates are parsed and calc_fine is
\* applied to every row.
view_history(cid) ==
    LET r == get_student_loans(cid)
        df == [k \in 1..Len(r.body) |->
                 [r.body[k] EXCEPT !.due_date = DateFromJson(r.body[k].due_date)]]
    IN  /\ fine_view' = IF r.status = 200 /\ r.body # <<>>
                        THEN [k \in 1..Len(df) |-> calc_fine(df[k], today)]
                        ELSE <<>>
        /\ resp' = Response("view_history", "-", cid, r.status)
        /\ UNCHANGED <<mem, files, today, import_day, open_issue, threads, faults>>

\* DELETE /customers/{customer_id}: the handler is commented out
\* (backend.py:230-254), so no route is registered for the request; the
\* framework answers 404 and no code of the service runs.
delete_customer(cid) ==
    /\ UNCHANGED open_issue
    /\ Fail("delete_customer", "-", cid, 404)

\* The service is restarted between two requests: the module is loaded again.
Restart ==
    /\ books_map' = load_data_from_json(book_file)
    /\ loans_db' = load_loans_from_json(loan_file)
    /\ import_day' = today
    /\ resp' = Response("restart", "-", 0, 0)
    /\ UNCHANGED <<files, today, open_issue, threads, faults, fine_view>>

\* A day passes.  Spec, SpecFault and SpecConc run within one day (no handler
\* branches on a date); a specification about the dates of a loan adds Tick.
Tick ==
    /\ today < MaxDay
    /\ today' = today + 1
    /\ UNCHANGED <<mem, files, import_day, resp, open_issue, threads, faults, fine_view>>

\* ----------------------------------------------------------------- inputs
Optional(S) == {<<>>} \cup {<<x>> : x \in S}

\* Book payloads: available is a field of the request body.
BookPayloads == {Book(i, a) : i \in ISBNS, a \in BOOLEAN}

\* LoanRecord payloads: the dashboard sends issue_date = today
\* (streamlit_app.py:181-185); other clients may omit it, and may send returned.
LoanPayloads ==
    {[isbn |-> i, coustomer_id |-> c, issue_date |-> d, due_date |-> <<>>, returned |-> r] :
        i \in ISBNS, c \in CUSTOMERS, d \in {<<>>, <<today>>}, r \in Optional(BOOLEAN)}

\* The requests the bundled dashboard sends: add_book with available = True
\* (streamlit_app.py:140), issue_book with isbn, coustomer_id and issue_date.
DashboardBookPayloads == {Book(i, TRUE) : i \in ISBNS}
DashboardLoanPayloads ==
    {[isbn |-> i, coustomer_id |-> c, issue_date |-> <<today>>, due_date |-> <<>>,
      returned |-> <<>>] : i \in ISBNS, c \in CUSTOMERS}

ReturnPayloads == {ReturnRequest(i, c) : i \in ISBNS, c \in CUSTOMERS}

\* issue_book is offered a request while the ledger has room for its record.
Room(loan) == Len(loans_db) < MaxLoans \/ issue_check(loan) # 0

\* ------------------------------------------------------------------- Spec
IdleThreads ==
    /\ pc = [t \in Threads |-> "idle"]
    /\ treq = [t \in Threads |-> LoanRecord([isbn |-> "A", coustomer_id |-> 1001,
                    issue_date |-> <<0>>, due_date |-> <<0>>, returned |-> <<FALSE>>])]
    /\ tres = [t \in Threads |-> 0]
    /\ faults = 0
    /\ fine_view = <<>>

\* A fresh deployment: no catalog file, no ledger file.  register_user never
\* creates user_database.json, so it is either absent or was put there empty.
Init ==
    /\ books_map = load_data_from_json(NoFile)
    /\ loans_db = load_loans_from_json(NoFile)
    /\ book_file = NoFile
    /\ loan_file = NoFile
    /\ user_file \in {NoFile, File(<<>>)}
    /\ today = 0
    /\ import_day = 0
    /\ resp = Response("none", "-", 0, 0)
    /\ open_issue = {}
    /\ IdleThreads

\* Every write succeeds and no handler is interrupted.
AddBook == \E b \in BookPayloads : add_book(b, TRUE) /\ UNCHANGED faults
IssueBook ==
    \E p \in LoanPayloads :
        Room(LoanRecord(p)) /\ issue_book(LoanRecord(p), TRUE, TRUE, FALSE) /\ UNCHANGED faults
ReturnBook == \E r \in ReturnPayloads : return_book(r, TRUE, TRUE, FALSE) /\ UNCHANGED faults
DeleteBook == \E i \in ISBNS : delete_book(i, TRUE) /\ UNCHANGED faults
RegisterUser == \E c \in CUSTOMERS : register_user(c, TRUE) /\ UNCHANGED faults
DeleteCustomer == \E c \in CUSTOMERS : delete_customer(c) /\ UNCHANGED faults
GetStudentLoans == \E c \in CUSTOMERS : get_student_loans_call(c) /\ UNCHANGED faults

Next ==
    \/ AddBook
    \/ IssueBook
    \/ ReturnBook
    \/ DeleteBook
    \/ RegisterUser
    \/ DeleteCustomer
    \/ GetStudentLoans
    \/ Restart

Spec == Init /\ [][Next]_vars

\* -------------------------------------------------------------- SpecFault
\* The dashboard's requests, one after the other; each file write may fail,
\* and the process may stop between the two saves of issue_book and of
\* return_book.
\* the outcomes of n writes (TRUE: written) and whether the process stops,
\* within the budget of faults
Outcomes(n) ==
    {o \in [w : [1..n -> BOOLEAN], stop : BOOLEAN] :
        faults + Cardinality({k \in 1..n : ~o.w[k]}) + (IF o.stop THEN 1 ELSE 0) <= MaxFaults}
Spent(o) ==
    faults' = faults + Cardinality({k \in DOMAIN o.w : ~o.w[k]}) + (IF o.stop THEN 1 ELSE 0)

AddBookF ==
    \E b \in DashboardBookPayloads, o \in Outcomes(1) :
        ~o.stop /\ add_book(b, o.w[1]) /\ Spent(o)
IssueBookF ==
    \E p \in DashboardLoanPayloads, o \in Outcomes(2) :
        Room(LoanRecord(p)) /\ issue_book(LoanRecord(p), o.w[1], o.w[2], o.stop) /\ Spent(o)
ReturnBookF ==
    \E r \in ReturnPayloads, o \in Outcomes(2) :
        return_book(r, o.w[1], o.w[2], o.stop) /\ Spent(o)
DeleteBookF ==
    \E i \in ISBNS, o \in Outcomes(1) : ~o.stop /\ delete_book(i, o.w[1]) /\ Spent(o)
RegisterUserF ==
    \E c \in CUSTOMERS, o \in Outcomes(1) : ~o.stop /\ register_user(c, o.w[1]) /\ Spent(o)

NextFault ==
    \/ AddBookF
    \/ IssueBookF
    \/ ReturnBookF
    \/ DeleteBookF
    \/ RegisterUserF
    \/ Restart

SpecFault == Init /\ [][NextFault]_vars

\* --------------------------------------------------------------- SpecConc
\* Two POST /loans/ requests of the dashboard, each run by a thread of the
\* pool (issue_book is a plain def): a thread may be preempted between any
\* two of its statements.  The catalog holds both books, available; both
\* customers are registered.
InitConc ==
    /\ books_map = [i \in ISBNS |-> Book(i, TRUE)]
    /\ loans_db = <<>>
    /\ book_file = save_data_to_json(books_map, NoFile, TRUE)
    /\ loan_file = save_loans_to_json(loans_db, NoFile, TRUE)
    /\ user_file = File(<<1001, 1002>>)
    /\ today = 0
    /\ import_day = 0
    /\ resp = Response("none", "-", 0, 0)
    /\ open_issue = {}
    /\ IdleThreads

\* the request arrives and its body is parsed
t_request(t) ==
    /\ pc[t] = "idle"
    /\ \E p \in DashboardLoanPayloads : treq' = [treq EXCEPT ![t] = LoanRecord(p)]
    /\ pc' = [pc EXCEPT ![t] = "check"]
    /\ UNCHANGED <<mem, files, today, import_day, resp, open_issue, tres, faults, fine_view>>

\* backend.py:299-323
t_check(t) ==
    /\ pc[t] = "check"
    /\ IF issue_check(treq[t]) # 0
       THEN /\ tres' = [tres EXCEPT ![t] = issue_check(treq[t])]
            /\ pc' = [pc EXCEPT ![t] = "done"]
            /\ resp' = Response("issue_book", treq[t].isbn, treq[t].coustomer_id,
                                issue_check(treq[t]))
       ELSE /\ pc' = [pc EXCEPT ![t] = "append"]
            /\ UNCHANGED <<tres, resp>>
    /\ UNCHANGED <<mem, files, today, import_day, open_issue, treq, faults, fine_view>>

\* backend.py:326
t_append(t) ==
    /\ pc[t] = "append"
    /\ loans_db' = Append(loans_db, treq[t])
    /\ pc' = [pc EXCEPT ![t] = "save_loans"]
    /\ UNCHANGED <<books_map, files, today, import_day, resp, open_issue, treq, tres, faults, fine_view>>

\* backend.py:327
t_save_loans(t) ==
    /\ pc[t] = "save_loans"
    /\ loan_file' = save_loans_to_json(loans_db, loan_file, TRUE)
    /\ pc' = [pc EXCEPT ![t] = "set_available"]
    /\ UNCHANGED <<mem, book_file, user_file, today, import_day, resp, open_issue,
                   treq, tres, faults, fine_view>>

\* backend.py:330
t_set_available(t) ==
    /\ pc[t] = "set_available"
    /\ books_map' = [books_map EXCEPT ![treq[t].isbn].available = FALSE]
    /\ pc' = [pc EXCEPT ![t] = "save_books"]
    /\ UNCHANGED <<loans_db, files, today, import_day, resp, open_issue, treq, tres, faults, fine_view>>

\* backend.py:333-335
t_save_books(t) ==
    /\ pc[t] = "save_books"
    /\ book_file' = save_data_to_json(books_map, book_file, TRUE)
    /\ tres' = [tres EXCEPT ![t] = 201]
    /\ pc' = [pc EXCEPT ![t] = "done"]
    /\ resp' = Response("issue_book", treq[t].isbn, treq[t].coustomer_id, 201)
    /\ open_issue' = open_issue \cup {treq[t].isbn}
    /\ UNCHANGED <<mem, loan_file, user_file, today, import_day, treq, faults, fine_view>>

NextConc ==
    \E t \in Threads :
        \/ t_request(t)
        \/ t_check(t)
        \/ t_append(t)
        \/ t_save_loans(t)
        \/ t_set_available(t)
        \/ t_save_books(t)

SpecConc == InitConc /\ [][NextConc]_vars

\* ------------------------------------------------------- SpecConcRegister
\* Two register_user requests served by two threads (the handler is a plain
\* def, which the framework runs in a thread pool), one statement group at
\* a time.  user_database.json is read and rewritten without a lock.
\* the request arrives and its body is parsed
r_request(t) ==
    /\ pc[t] = "idle"
    /\ \E c \in CUSTOMERS :
          treq' = [treq EXCEPT ![t] = [coustomer_id |-> c, users_db |-> <<>>]]
    /\ pc' = [pc EXCEPT ![t] = "read"]
    /\ UNCHANGED <<mem, files, today, import_day, resp, open_issue, tres, faults, fine_view>>

\* backend.py:205-212: json.load and sort; with no file users_db is unbound
r_read(t) ==
    /\ pc[t] = "read"
    /\ IF ~user_file.exists
       THEN /\ tres' = [tres EXCEPT ![t] = 500]
            /\ pc' = [pc EXCEPT ![t] = "done"]
            /\ resp' = Response("register_user", "-", treq[t].coustomer_id, 500)
            /\ UNCHANGED treq
       ELSE /\ treq' = [treq EXCEPT ![t].users_db = SortIds(user_file.data)]
            /\ pc' = [pc EXCEPT ![t] = "check"]
            /\ UNCHANGED <<tres, resp>>
    /\ UNCHANGED <<mem, files, today, import_day, open_issue, faults, fine_view>>

\* backend.py:214-215
r_check(t) ==
    /\ pc[t] = "check"
    /\ IF find_user_binary(treq[t].coustomer_id, treq[t].users_db)
       THEN /\ tres' = [tres EXCEPT ![t] = 400]
            /\ pc' = [pc EXCEPT ![t] = "done"]
            /\ resp' = Response("register_user", "-", treq[t].coustomer_id, 400)
       ELSE /\ pc' = [pc EXCEPT ![t] = "write"]
            /\ UNCHANGED <<tres, resp>>
    /\ UNCHANGED <<mem, files, today, import_day, open_issue, treq, faults, fine_view>>

\* backend.py:217-223: append, sort, rewrite the file, answer 201
r_write(t) ==
    /\ pc[t] = "write"
    /\ user_file' = File(SortIds(Append(treq[t].users_db, treq[t].coustomer_id)))
    /\ tres' = [tres EXCEPT ![t] = 201]
    /\ pc' = [pc EXCEPT ![t] = "done"]
    /\ resp' = Response("register_user", "-", treq[t].coustomer_id, 201)
    /\ UNCHANGED <<mem, book_file, loan_file, today, import_day, open_issue, treq,
                   faults, fine_view>>

NextConcRegister ==
    \E t \in Threads :
        \/ r_request(t)
        \/ r_read(t)
        \/ r_check(t)
        \/ r_write(t)

SpecConcRegister == Init /\ [][NextConcRegister]_vars

\* --------------------------------------------------------- SpecConcReturn
\* The concurrent issue_book requests of SpecConc, and return_book requests
\* served between their steps.
NextConcReturn ==
    \/ NextConc
    \/ ReturnBook
SpecConcReturn == InitConc /\ [][NextConcReturn]_vars

\* ----------------------------------------------------------- SpecRegistry
\* The customer registry alone, with more ids than Spec draws from: any
\* sequence of registrations in any order, and history lookups.
RegistryIds == {1001, 1002, 1003, 1004, 1005}

RegisterAny == \E c \in RegistryIds : register_user(c, TRUE) /\ UNCHANGED faults
LookupAny == \E c \in RegistryIds : get_student_loans_call(c) /\ UNCHANGED faults

NextRegistry ==
    \/ RegisterAny
    \/ LookupAny
SpecRegistry == Init /\ [][NextRegistry]_vars

\* --------------------------------------------------------------- SpecFine
\* The history tab over a ledger of one loan of book A: any customer, any due
\* date, returned or not, looked at on any day.
InitFine ==
    \E c \in CUSTOMERS, d \in 0..MaxFineDay, r \in BOOLEAN :
        /\ books_map = [i \in {"A"} |-> Book("A", r)]
        /\ loans_db = <<[isbn |-> "A", coustomer_id |-> c, issue_date |-> 0,
                         due_date |-> d, returned |-> r]>>
        /\ book_file = save_data_to_json(books_map, NoFile, TRUE)
        /\ loan_file = save_loans_to_json(loans_db, NoFile, TRUE)
        /\ user_file = File(<<1001, 1002>>)
        /\ today \in 0..MaxFineDay
        /\ import_day = 0
        /\ resp = Response("none", "-", 0, 0)
        /\ open_issue = IF r THEN {} ELSE {"A"}
        /\ IdleThreads

ViewHistory == \E c \in CUSTOMERS : view_history(c)

NextFine == ViewHistory
SpecFine == InitFine /\ [][NextFine]_vars

\* --------------------------------------------------------------- SpecDays
\* The service over several days: two books in the catalog, two registered
\* customers, issue_book requests that supply no dates (isbn and coustomer_id
\* only), returns, restarts, and days that pass.
NoDatesPayloads ==
    {[isbn |-> i, coustomer_id |-> c, issue_date |-> <<>>, due_date |-> <<>>,
      returned |-> <<>>] : i \in ISBNS, c \in CUSTOMERS}

InitDays ==
    /\ books_map = [i \in ISBNS |-> Book(i, TRUE)]
    /\ loans_db = <<>>
    /\ book_file = save_data_to_json(books_map, NoFile, TRUE)
    /\ loan_file = save_loans_to_json(loans_db, NoFile, TRUE)
    /\ user_file = File(<<1001, 1002>>)
    /\ today = 0
    /\ import_day = 0
    /\ resp = Response("none", "-", 0, 0)
    /\ open_issue = {}
    /\ IdleThreads

IssueBookNoDates ==
    \E p \in NoDatesPayloads :
        Room(LoanRecord(p)) /\ issue_book(LoanRecord(p), TRUE, TRUE, FALSE) /\ UNCHANGED faults

NextDays ==
    \/ IssueBookNoDates
    \/ ReturnBook
    \/ Restart
    \/ Tick
SpecDays == InitDays /\ [][NextDays]_vars

\* ----------------------------------------------------- claims: vocabulary
\* The ledger's unreturned loans for an isbn.
UnreturnedLoans(db, isbn) == {k \in 1..Len(db) : db[k].isbn = isbn /\ ~db[k].returned}

\* The customer registry holds the id.
Registered(cid) ==
    user_file.exists /\ \E k \in 1..Len(user_file.data) : user_file.data[k] = cid

\* Every action writes resp, so a step with resp'.op = op is a call of op
\* with the isbn and customer id that resp' names.
Call(op) == resp'.op = op

\* ---------------------------------------------------------------- claims
\* C1: in every reachable state each catalog book has available = false iff
\* the ledger holds exactly one unreturned loan for its isbn.
C1_AvailableIffOneLoan ==
    \A i \in DOMAIN books_map :
        (~books_map[i].available) <=> Cardinality(UnreturnedLoans(loans_db, i)) = 1

\* C2: of two concurrent issue_book requests for the same available isbn at
\* most one is answered 201, and the ledger never holds two unreturned loans
\* for one isbn.
C2_OneIssueWins ==
    \A i \in ISBNS :
        /\ Cardinality({t \in Threads : tres[t] = 201 /\ treq[t].isbn = i}) <= 1
        /\ Cardinality(UnreturnedLoans(loans_db, i)) <= 1

\* C3: issue_book for a customer id that is not in the registry answers 403
\* and changes neither the ledger nor the catalog.
C3_UnregisteredForbidden ==
    [][(Call("issue_book") /\ ~Registered(resp'.cid))
          => (resp'.status = 403 /\ loans_db' = loans_db /\ books_map' = books_map)]_vars

\* C4: after a successful issue_book of an isbn, an issue_book of the same
\* isbn by a registered customer with no return_book in between answers 400
\* and changes neither the ledger nor the catalog.
C4_SecondIssueConflict ==
    [][(Call("issue_book") /\ resp'.isbn \in open_issue /\ Registered(resp'.cid))
          => (resp'.status = 400 /\ loans_db' = loans_db /\ books_map' = books_map)]_vars

\* C5: return_book(isbn, customer_id) succeeds only if the ledger holds an
\* unreturned loan for that isbn issued to that customer_id.
C5_ReturnOnlyByBorrower ==
    [][(Call("return_book") /\ resp'.status = 200)
          => \E k \in UnreturnedLoans(loans_db, resp'.isbn) :
                 loans_db[k].coustomer_id = resp'.cid]_vars

C7_AppendedLoanUnreturned ==
    [][(Call("issue_book") /\ Len(loans_db') = Len(loans_db) + 1)
          => ~loans_db'[Len(loans_db')].returned]_vars

\* What a startup would load from the files is consistent for an isbn: its
\* book, if any, is unavailable iff the ledger has an unreturned loan for it.
PersistedConsistent(bf, lf, i) ==
    LET bm == load_data_from_json(bf)
        db == load_loans_from_json(lf)
    IN  i \in DOMAIN bm => ((~bm[i].available) <=> UnreturnedLoans(db, i) # {})

\* C8: issue_book and return_book are atomic with respect to persistence:
\* whether the call completes, a write fails or the process stops between
\* the two saves, a call that finds the files consistent for its isbn leaves
\* them consistent.
C8_IssueReturnAtomicOnDisk ==
    [][(Call("issue_book") \/ Call("return_book"))
          => (PersistedConsistent(book_file, loan_file, resp'.isbn)
                 => PersistedConsistent(book_file', loan_file', resp'.isbn))]_vars

\* The files hold what is in memory.
FilesMatchMemory ==
    /\ load_data_from_json(book_file) = books_map
    /\ load_loans_from_json(loan_file) = loans_db

\* C9: a call of add_book, delete_book, issue_book or return_book that starts
\* with the files up to date either ends with them up to date, or answers a
\* failure and leaves catalog and ledger as they were.
C9_SuccessMeansWritten ==
    [][(/\ Call("add_book") \/ Call("delete_book") \/ Call("issue_book")
           \/ Call("return_book")
        /\ FilesMatchMemory)
          => \/ FilesMatchMemory'
             \/ (resp'.status \notin {200, 201} /\ UNCHANGED mem)]_vars

\* C10, the parts about delete_book itself: with an unreturned loan it
\* answers 400 and leaves the catalog; on a catalog isbn without one it
\* answers 200 and the isbn is gone from the catalog and from get_all_books.
C10_Delete ==
    /\ (Call("delete_book") /\ UnreturnedLoans(loans_db, resp'.isbn) # {})
          => (resp'.status = 400 /\ books_map' = books_map /\ book_file' = book_file)
    /\ (/\ Call("delete_book") /\ resp'.isbn \in DOMAIN books_map
        /\ UnreturnedLoans(loans_db, resp'.isbn) = {})
          => /\ resp'.status = 200
             /\ resp'.isbn \notin DOMAIN books_map'
             /\ \A b \in get_all_books' : b.isbn # resp'.isbn

\* C10 as stated: ... and issue_book, return_book and delete_book for an isbn
\* that is not in the catalog answer 404 (taken where the customer file
\* exists, so that a violation does not rest on the 500 of its absence).
C10_DeleteThenNotFound ==
    [][/\ C10_Delete
       /\ (/\ Call("issue_book") /\ resp'.isbn \notin DOMAIN books_map
           /\ user_file.exists)
             => resp'.status = 404
       /\ (Call("return_book") /\ resp'.isbn \notin DOMAIN books_map)
             => resp'.status = 404
       /\ (Call("delete_book") /\ resp'.isbn \notin DOMAIN books_map)
             => resp'.status = 404]_vars

\* C10 as amended: ... and return_book, delete_book and issue_book by a
\* registered customer for an isbn that is not in the catalog answer 404.
C10_DeleteThenNotFoundIfRegistered ==
    [][/\ C10_Delete
       /\ (/\ Call("issue_book") /\ resp'.isbn \notin DOMAIN books_map
           /\ Registered(resp'.cid))
             => resp'.status = 404
       /\ (Call("return_book") /\ resp'.isbn \notin DOMAIN books_map)
             => resp'.status = 404
       /\ (Call("delete_book") /\ resp'.isbn \notin DOMAIN books_map)
             => resp'.status = 404]_vars

\* C10 witness: an isbn that was lent and returned is no longer in the
\* catalog, and an issue_book for it by a registered customer was answered 404.
C10_Witness ==
    /\ resp.op = "issue_book" /\ resp.status = 404 /\ Registered(resp.cid)
    /\ resp.isbn \notin DOMAIN books_map
    /\ \E k \in 1..Len(loans_db) : loans_db[k].isbn = resp.isbn /\ loans_db[k].returned

\* The registry file uf holds the id.
RegisteredIn(uf, cid) == uf.exists /\ \E k \in 1..Len(uf.data) : uf.data[k] = cid

\* The ledger's unreturned loans of a customer.
UnreturnedLoansOf(db, cid) == {k \in 1..Len(db) : db[k].coustomer_id = cid /\ ~db[k].returned}

\* The consequence C11 draws: the customer of every unreturned loan is registered.
UnreturnedLoansRegistered ==
    \A k \in 1..Len(loans_db) :
        ~loans_db[k].returned => Registered(loans_db[k].coustomer_id)

\* C11: the registry supports deletion: deleting a customer with an unreturned
\* loan answers 400 (Conflict) and leaves the customer registered, deleting a
\* registered customer with none succeeds and removes it; and in every
\* reachable state the customer of every unreturned loan is registered.
C11_DeleteCustomerGuarded ==
    /\ [][Call("delete_customer") =>
            IF UnreturnedLoansOf(loans_db, resp'.cid) # {}
            THEN resp'.status = 400 /\ RegisteredIn(user_file', resp'.cid)
            ELSE Registered(resp'.cid) =>
                    (resp'.status = 200 /\ ~RegisteredIn(user_file', resp'.cid))]_vars
    /\ []UnreturnedLoansRegistered

\* C12: register_user with an id that is not registered answers 201 and
\* registers it, from every reachable state, the one with no customer store
\* included; issue_book by a registered customer for an available catalog
\* book then answers 201 and makes the book unavailable.
C12_RegisterThenIssue ==
    /\ [][(Call("register_user") /\ ~Registered(resp'.cid))
            => (resp'.status = 201 /\ RegisteredIn(user_file', resp'.cid))]_vars
    /\ [][(/\ Call("issue_book")
           /\ Registered(resp'.cid)
           /\ resp'.isbn \in DOMAIN books_map
           /\ books_map[resp'.isbn].available)
            => (resp'.status = 201 /\ ~books_map'[resp'.isbn].available)]_vars

\* The last record of the ledger is a loan of isbn to cid.
LastLoanIs(db, isbn, cid) ==
    Len(db) > 0 /\ db[Len(db)].isbn = isbn /\ db[Len(db)].coustomer_id = cid

\* C13: from a state where b is in the catalog and available and c is
\* registered, issue_book(b, c) answers 201 and appends one loan for (b, c);
\* the return_book(b, c) that follows answers 200, makes b available again
\* and leaves that one loan in the ledger with returned = true.
C13_IssueReturnCycle ==
    /\ [][(/\ Call("issue_book")
           /\ Registered(resp'.cid)
           /\ resp'.isbn \in DOMAIN books_map
           /\ books_map[resp'.isbn].available)
            => (/\ resp'.status = 201
                /\ Len(loans_db') = Len(loans_db) + 1
                /\ SubSeq(loans_db', 1, Len(loans_db)) = loans_db
                /\ LastLoanIs(loans_db', resp'.isbn, resp'.cid))]_vars
    /\ [][(/\ Call("return_book")
           /\ resp.op = "issue_book" /\ resp.status = 201
           /\ resp.isbn = resp'.isbn /\ resp.cid = resp'.cid)
            => (/\ resp'.status = 200
                /\ books_map'[resp'.isbn].available
                /\ Len(loans_db') = Len(loans_db)
                /\ SubSeq(loans_db', 1, Len(loans_db) - 1) = SubSeq(loans_db, 1, Len(loans_db) - 1)
                /\ LastLoanIs(loans_db', resp'.isbn, resp'.cid)
                /\ loans_db'[Len(loans_db')].returned)]_vars

\* No two records of the collection carry the same isbn.
OneRecordPerIsbn(records) ==
    \A r1 \in records : \A r2 \in records : r1.isbn = r2.isbn => r1 = r2

\* C14: add_book with an isbn that is in the catalog answers 400 and leaves
\* the catalog, the existing record's availability included, and its file
\* unchanged; the catalog never holds two records for one isbn, in memory or
\* in book_database.json.
C14_DuplicateBookRejected ==
    /\ [][(Call("add_book") /\ resp'.isbn \in DOMAIN books_map)
            => (resp'.status = 400 /\ books_map' = books_map /\ book_file' = book_file)]_vars
    /\ [](/\ OneRecordPerIsbn(get_all_books)
          /\ book_file.exists => OneRecordPerIsbn(book_file.data))

\* A duplicate add_book was refused for a book that is on loan.
C14_Witness ==
    /\ resp.op = "add_book" /\ resp.status = 400
    /\ resp.isbn \in DOMAIN books_map
    /\ ~books_map[resp.isbn].available
    /\ UnreturnedLoans(loans_db, resp.isbn) # {}

\* C15: register_user with an id that is registered answers 400 and leaves
\* the registry unchanged; the registry never holds two records for one id.
C15_DuplicateCustomerRejected ==
    /\ [][(Call("register_user") /\ Registered(resp'.cid))
            => (resp'.status = 400 /\ user_file' = user_file)]_vars
    /\ [](\A j \in 1..Len(user_file.data) : \A k \in 1..Len(user_file.data) :
            user_file.data[j] = user_file.data[k] => j = k)

\* A second registration of a customer was refused while another customer
\* is registered too.
C15_Witness ==
    /\ resp.op = "register_user" /\ resp.status = 400
    /\ Registered(resp.cid)
    /\ Len(user_file.data) = 2

\* The in-memory ledger's loans of a customer, in ledger order.
LedgerLoansOf(db, cid) ==
    LET Mine(l) == l.coustomer_id = cid IN SelectSeq(db, Mine)

\* The loans a JSON body of get_student_loans names.
BodyLoans(body) == [k \in 1..Len(body) |-> LoanFromJson(body[k])]

\* C16: for a registered customer c get_student_loans(c) answers 200 with
\* exactly the in-memory ledger's loans of c, returned and unreturned, in
\* ledger order; the call changes neither memory nor files.
C16_HistoryIsLedgerOfCustomer ==
    /\ [](\A c \in CUSTOMERS :
            Registered(c) =>
                /\ get_student_loans(c).status = 200
                /\ BodyLoans(get_student_loans(c).body) = LedgerLoansOf(loans_db, c))
    /\ [][Call("get_student_loans") => UNCHANGED <<mem, files>>]_vars

\* The history of a registered customer was asked for while it holds a
\* returned and an unreturned loan.
C16_Witness ==
    /\ resp.op = "get_student_loans" /\ resp.status = 200
    /\ Registered(resp.cid)
    /\ \E j \in 1..Len(get_student_loans(resp.cid).body) :
       \E k \in 1..Len(get_student_loans(resp.cid).body) :
            /\ j < k
            /\ get_student_loans(resp.cid).body[j].returned
            /\ ~get_student_loans(resp.cid).body[k].returned

\* C17: the fine shown for a loan is 0 when the loan is returned or today is
\* not after its due date, and 5 for each day after it otherwise; it is
\* never negative.
C17_Fine ==
    resp.op = "view_history" =>
        LET loans == LedgerLoansOf(loans_db, resp.cid)
        IN  /\ Len(fine_view) = Len(loans)
            /\ \A k \in 1..Len(loans) :
                /\ fine_view[k] = IF loans[k].returned \/ today <= loans[k].due_date
                                  THEN 0 ELSE 5 * (today - loans[k].due_date)
                /\ fine_view[k] >= 0

\* The history shows an unreturned loan three days after its due date, fined 15.
C17_Witness ==
    /\ resp.op = "view_history"
    /\ Len(loans_db) = 1 /\ loans_db[1].coustomer_id = resp.cid
    /\ ~loans_db[1].returned
    /\ today - loans_db[1].due_date = 3
    /\ fine_view = <<15>>

\* C18: no step removes a loan from the ledger or changes a loan's isbn or
\* customer id; the ledger never gets shorter, a delete_book of the loan's
\* book included; a loan's returned flag changes only from false to true and
\* only in a return_book.
C18_LedgerAppendOnly ==
    [][/\ Len(loans_db') >= Len(loans_db)
       /\ \A k \in 1..Len(loans_db) :
            /\ loans_db'[k].isbn = loans_db[k].isbn
            /\ loans_db'[k].coustomer_id = loans_db[k].coustomer_id
            /\ loans_db[k].returned => loans_db'[k].returned
            /\ loans_db'[k].returned # loans_db[k].returned => Call("return_book")]_vars

\* A book was deleted whose returned loan is still in the ledger, after a
\* return_book had set that loan's flag.
C18_Witness ==
    /\ resp.op = "delete_book" /\ resp.status = 200
    /\ resp.isbn \notin DOMAIN books_map
    /\ \E k \in 1..Len(loans_db) :
            /\ loans_db[k].isbn = resp.isbn
            /\ loans_db[k].returned
            /\ loans_db[k].due_date = today

\* C19: a loan that issue_book creates on day D from a request without dates
\* has issue_date = D and due_date = D + 30, also when the service was
\* started before D.
C19_LoanDatesFromIssueDay ==
    [][(IssueBookNoDates /\ resp'.status = 201)
          => (/\ loans_db'[Len(loans_db')].issue_date = today
              /\ loans_db'[Len(loans_db')].due_date = today + 30)]_vars

\* C20: issue_book checks customer, then book, then availability: for an
\* unregistered customer and an isbn missing from the catalog it answers 403,
\* for a registered customer and a missing isbn 404; an issue_book that fails
\* changes neither catalog nor ledger.
C20_IssueCheckOrder ==
    [][Call("issue_book") =>
          /\ (~Registered(resp'.cid) /\ resp'.isbn \notin DOMAIN books_map)
                => resp'.status = 403
          /\ (Registered(resp'.cid) /\ resp'.isbn \notin DOMAIN books_map)
                => resp'.status = 404
          /\ resp'.status # 201 => (books_map' = books_map /\ loans_db' = loans_db)]_vars

\* The greatest element of a non-empty set of ledger positions.
Latest(ks) == CHOOSE k \in ks : \A j \in ks : j <= k

\* C21 (the steps of a request thread leave resp alone, so the return_book
\* step is named by its action): a return_book that answers 200 sets returned on exactly one loan, the
\* most recently appended unreturned loan of its isbn, and makes that isbn's
\* book available; every other loan's returned flag and every other book's
\* availability stay as they were.
C21_ReturnMarksMostRecent ==
    [][(ReturnBook /\ resp'.status = 200) =>
          LET open == UnreturnedLoans(loans_db, resp'.isbn)
          IN  /\ open # {}
              /\ Len(loans_db') = Len(loans_db)
              /\ loans_db'[Latest(open)].returned
              /\ \A j \in (1..Len(loans_db)) \ {Latest(open)} :
                    loans_db'[j].returned = loans_db[j].returned
              /\ DOMAIN books_map' = DOMAIN books_map
              /\ books_map'[resp'.isbn].available
              /\ \A b \in DOMAIN books_map \ {resp'.isbn} :
                    books_map'[b].available = books_map[b].available]_vars

\* A return_book succeeded for an isbn that two requests had both been issued:
\* the later loan is returned, the earlier one is still unreturned.
C21_Witness ==
    /\ resp.op = "return_book" /\ resp.status = 200
    /\ Len(loans_db) = 2
    /\ loans_db[1].isbn = resp.isbn /\ ~loans_db[1].returned
    /\ loans_db[2].isbn = resp.isbn /\ loans_db[2].returned
    /\ books_map[resp.isbn].available

\* The list is in ascending order.
Ascending(s) == \A j \in 1..Len(s) : \A k \in 1..Len(s) : j < k => s[j] <= s[k]

\* C22: after any sequence of register_user calls user_database.json is in
\* ascending coustomer_id order, and find_user_binary on it answers true for
\* exactly the registered ids; so get_student_loans answers 404 for exactly
\* the unregistered ids of an existing registry.
C22_RegistrySortedSearchExact ==
    /\ [](/\ Ascending(user_file.data)
          /\ \A c \in RegistryIds :
                find_user_binary(c, user_file.data) <=> Registered(c))
    /\ [][Call("get_student_loans") =>
            (resp'.status = 404 <=> (user_file.exists /\ ~Registered(resp'.cid)))]_vars

\* The smallest id was registered after three larger ones and stands first.
C22_Witness ==
    /\ resp.op = "register_user" /\ resp.status = 201
    /\ Len(user_file.data) = 4
    /\ user_file.data[1] = resp.cid

\* C23: with requests served one after the other and every write succeeding,
\* the ledger holds at most one unreturned loan per isbn, and an isbn with an
\* unreturned loan is in the catalog with available = false.
C23_UnreturnedLoanMeansOnLoan ==
    \A i \in ISBNS :
        /\ Cardinality(UnreturnedLoans(loans_db, i)) <= 1
        /\ UnreturnedLoans(loans_db, i) # {}
              => (i \in DOMAIN books_map /\ ~books_map[i].available)

\* A second issue_book of a book on loan was refused: the ledger holds the
\* one unreturned loan of the book and an older, returned one.
C23_Witness ==
    /\ resp.op = "issue_book" /\ resp.status = 400
    /\ Cardinality(UnreturnedLoans(loans_db, resp.isbn)) = 1
    /\ Len(loans_db) = 2
    /\ loans_db[1].isbn = resp.isbn /\ loans_db[1].returned

\* C24: a return_book that answers 200 sets the due_date of the loan it marks
\* returned to the day of the return, overwriting the due date recorded at
\* issue, and leaves that loan's issue_date, isbn and customer id as they were.
C24_ReturnOverwritesDueDate ==
    [][(ReturnBook /\ resp'.status = 200) =>
          LET k == Latest(UnreturnedLoans(loans_db, resp'.isbn))
          IN  /\ UnreturnedLoans(loans_db, resp'.isbn) # {}
              /\ loans_db'[k].returned
              /\ loans_db'[k].due_date = today
              /\ loans_db'[k].issue_date = loans_db[k].issue_date
              /\ loans_db'[k].isbn = loans_db[k].isbn
              /\ loans_db'[k].coustomer_id = loans_db[k].coustomer_id]_vars

\* A loan issued on day 0, due on day 30, was returned on day 1 and now
\* carries due_date = 1.
C24_Witness ==
    /\ resp.op = "return_book" /\ resp.status = 200
    /\ today = 1
    /\ \E k \in 1..Len(loans_db) :
            /\ loans_db[k].isbn = resp.isbn
            /\ loans_db[k].returned
            /\ loans_db[k].issue_date = 0
            /\ loans_db[k].due_date = 1

\* C25: after every add_book, delete_book, issue_book or return_book call
\* whose writes succeed, load_data_from_json and load_loans_from_json applied
\* to the files give the in-memory catalog and ledger: the same isbns and
\* availability, the same loans in the same order with the same flags.
C25_ReloadYieldsMemory ==
    [][(Call("add_book") \/ Call("delete_book") \/ Call("issue_book")
           \/ Call("return_book"))
          => FilesMatchMemory']_vars

\* A return_book succeeded while another book is on loan: the files hold a
\* returned and an unreturned loan, an available and an unavailable book.
C25_Witness ==
    /\ resp.op = "return_book" /\ resp.status = 200
    /\ loan_file.exists /\ Len(loan_file.data) = 2
    /\ \E j \in 1..2 : \E k \in 1..2 :
            loan_file.data[j].returned /\ ~loan_file.data[k].returned
    /\ book_file.exists
    /\ \E a \in book_file.data : \E b \in book_file.data :
            a.available /\ ~b.available

\* C26: when register_user requests run concurrently, every request that was
\* answered 201 has its customer in user_database.json; no successful
\* registration is lost.
C26_NoLostRegistration ==
    \A t \in Threads :
        (pc[t] = "done" /\ tres[t] = 201) => Registered(treq[t].coustomer_id)
=============================================================================
